---- MODULE Spec2Model ----
(***************************************************************************)
(* State-machine model of src/index.tsx: the App component of WeChat Cover *)
(* Pro.  The React state hooks are the variables; every event handler,     *)
(* effect and asynchronous continuation of the component is one action.    *)
(* JavaScript numbers are modelled as exact rationals (IEEE-754 rounding   *)
(* is outside the model); strings are sequences of characters.             *)
(***************************************************************************)
EXTENDS Integers, Sequences, FiniteSets, Bags, TLC

(***************************************************************************)
(* Bounds of the model (not program constants).                            *)
(***************************************************************************)
\* total number of export requests issued in one behaviour
MaxExports == 2
\* number of FileReader loads that may be in flight at once
MaxReaders == 1
\* width and height of the bounding box of the draggable region, in pixels
BoxSide == 3
\* largest source width/height drawn for the crop-geometry specification
MaxDim == 6

(***************************************************************************)
(* JavaScript numbers as exact rationals [n, d], d > 0, in lowest terms.   *)
(***************************************************************************)
Abs(i) == IF i < 0 THEN -i ELSE i

RECURSIVE GCD(_, _)
GCD(a, b) == IF b = 0 THEN a ELSE GCD(b, a % b)

Rat(n, d) ==
  LET g == GCD(Abs(n), Abs(d))
      s == IF d < 0 THEN -1 ELSE 1
  IN  [n |-> s * (n \div g), d |-> s * (d \div g)]

Num(i) == [n |-> i, d |-> 1]

RatSub(p, q) == Rat(p.n * q.d - q.n * p.d, p.d * q.d)

RatMul(p, q) ==
  LET g1 == GCD(Abs(p.n), q.d)
      g2 == GCD(Abs(q.n), p.d)
  IN  Rat((p.n \div g1) * (q.n \div g2), (p.d \div g2) * (q.d \div g1))

RatDiv(p, q) == RatMul(p, Rat(q.d, q.n))

RatLE(p, q) == p.n * q.d <= q.n * p.d

\* Math.min / Math.max
MathMin(p, q) == IF RatLE(p, q) THEN p ELSE q

MathMax(p, q) == IF RatLE(p, q) THEN q ELSE p

(***************************************************************************)
(* Strings: sequences of characters; String.prototype.trim.                *)
(***************************************************************************)
IsSpace(c) == c = " "

RECURSIVE TrimStart(_)
TrimStart(s) ==
  IF s # <<>> /\ IsSpace(Head(s)) THEN TrimStart(Tail(s)) ELSE s

RECURSIVE TrimEnd(_)
TrimEnd(s) ==
  IF s # <<>> /\ IsSpace(s[Len(s)]) THEN TrimEnd(SubSeq(s, 1, Len(s) - 1)) ELSE s

Trim(s) == TrimEnd(TrimStart(s))

\* JavaScript truthiness of a string: non-empty
Truthy(s) == s # <<>>

(***************************************************************************)
(* Values.                                                                 *)
(***************************************************************************)
Null == [null |-> TRUE]

\* the first two entries of FONTS
FONTS == << "Noto Sans SC", "Noto Serif SC" >>

Colors == { "#ffffff", "#ff0000" }

\* values typed into the overlay text input and the prompt textarea
Texts == { <<>>, << " " >>, << "A" >> }

Prompts == { <<>>, << " " >>, << "p" >> }

\* the value of `error`: a message, or Null
Err(message) == [message |-> message]

ErrTooLarge == Err("Image size too large. Please choose an image under 4MB.")

ErrNoInput == Err("Please enter a prompt or upload a reference image.")

ErrNoImage ==
  Err("The model generated text instead of an image. Please try refining your prompt.")

ErrFailed == Err("Failed to generate image.")

\* the upload limit, 4 * 1024 * 1024 bytes
MaxUploadBytes == 4194304

\* sizes of the files chosen in the upload input
FileSizes == { MaxUploadBytes, MaxUploadBytes + 1, 5 * 1024 * 1024 }

\* a decoded raster image is identified by its natural size
Image(w, h) == [w |-> w, h |-> h]

\* images the generation collaborator returns in the application specification
GeneratedImages == { Image(1200, 800), Image(1600, 900) }

\* the image read from an uploaded file
UploadedImage == Image(640, 480)

Kinds == { "full", "cover", "thumb" }

(***************************************************************************)
(* downloadImage: crop geometry, re-projection, font size.                 *)
(***************************************************************************)
\* CropGeometry with the cover crop taken from the top edge: sy = 0
CropGeometry_coverFromTop(type, sourceW, sourceH) ==
  IF type = "full" THEN
    [targetW |-> Num(sourceW), targetH |-> Num(sourceH),
     sx |-> Num(0), sy |-> Num(0), sw |-> Num(sourceW), sh |-> Num(sourceH)]
  ELSE IF type = "cover" THEN
    LET targetW == Num(900)
        targetH == Num(383)
        scale == RatDiv(Num(sourceW), targetW)
        cropHeight == RatMul(targetH, scale)
    IN  [targetW |-> targetW, targetH |-> targetH,
         sx |-> Num(0), sy |-> Num(0),
         sw |-> Num(sourceW), sh |-> cropHeight]
  ELSE
    LET side == MathMin(Num(sourceW), Num(sourceH))
    IN  [targetW |-> Num(500), targetH |-> Num(500),
         sx |-> RatDiv(RatSub(Num(sourceW), side), Num(2)),
         sy |-> RatDiv(RatSub(Num(sourceH), side), Num(2)),
         sw |-> side, sh |-> side]

\* CropGeometry with the icon crop taken from the top-left corner
CropGeometry_iconFromCorner(type, sourceW, sourceH) ==
  IF type = "full" THEN
    [targetW |-> Num(sourceW), targetH |-> Num(sourceH),
     sx |-> Num(0), sy |-> Num(0), sw |-> Num(sourceW), sh |-> Num(sourceH)]
  ELSE IF type = "cover" THEN
    LET targetW == Num(900)
        targetH == Num(383)
        scale == RatDiv(Num(sourceW), targetW)
        cropHeight == RatMul(targetH, scale)
    IN  [targetW |-> targetW, targetH |-> targetH,
         sx |-> Num(0),
         sy |-> RatDiv(RatSub(Num(sourceH), cropHeight), Num(2)),
         sw |-> Num(sourceW), sh |-> cropHeight]
  ELSE
    LET side == MathMin(Num(sourceW), Num(sourceH))
    IN  [targetW |-> Num(500), targetH |-> Num(500),
         sx |-> Num(0), sy |-> Num(0),
         sw |-> side, sh |-> side]

\* CropGeometry with the full export scaled down to half the source size
CropGeometry_fullHalfSize(type, sourceW, sourceH) ==
  IF type = "full" THEN
    [targetW |-> RatDiv(Num(sourceW), Num(2)),
     targetH |-> RatDiv(Num(sourceH), Num(2)),
     sx |-> Num(0), sy |-> Num(0), sw |-> Num(sourceW), sh |-> Num(sourceH)]
  ELSE IF type = "cover" THEN
    LET targetW == Num(900)
        targetH == Num(383)
        scale == RatDiv(Num(sourceW), targetW)
        cropHeight == RatMul(targetH, scale)
    IN  [targetW |-> targetW, targetH |-> targetH,
         sx |-> Num(0),
         sy |-> RatDiv(RatSub(Num(sourceH), cropHeight), Num(2)),
         sw |-> Num(sourceW), sh |-> cropHeight]
  ELSE
    LET side == MathMin(Num(sourceW), Num(sourceH))
    IN  [targetW |-> Num(500), targetH |-> Num(500),
         sx |-> RatDiv(RatSub(Num(sourceW), side), Num(2)),
         sy |-> RatDiv(RatSub(Num(sourceH), side), Num(2)),
         sw |-> side, sh |-> side]

\* CropGeometry with the cover crop offset kept inside the source:
\* sy = Math.max(0, (sourceH - cropHeight) / 2)
CropGeometry_coverClamped(type, sourceW, sourceH) ==
  IF type = "full" THEN
    [targetW |-> Num(sourceW), targetH |-> Num(sourceH),
     sx |-> Num(0), sy |-> Num(0), sw |-> Num(sourceW), sh |-> Num(sourceH)]
  ELSE IF type = "cover" THEN
    LET targetW == Num(900)
        targetH == Num(383)
        scale == RatDiv(Num(sourceW), targetW)
        cropHeight == RatMul(targetH, scale)
    IN  [targetW |-> targetW, targetH |-> targetH,
         sx |-> Num(0),
         sy |-> MathMax(Num(0), RatDiv(RatSub(Num(sourceH), cropHeight), Num(2))),
         sw |-> Num(sourceW), sh |-> cropHeight]
  ELSE
    LET side == MathMin(Num(sourceW), Num(sourceH))
    IN  [targetW |-> Num(500), targetH |-> Num(500),
         sx |-> RatDiv(RatSub(Num(sourceW), side), Num(2)),
         sy |-> RatDiv(RatSub(Num(sourceH), side), Num(2)),
         sw |-> side, sh |-> side]

\* the branch on `type` computing targetW, targetH, sx, sy, sw, sh
CropGeometry(type, sourceW, sourceH) ==
  IF type = "full" THEN
    [targetW |-> Num(sourceW), targetH |-> Num(sourceH),
     sx |-> Num(0), sy |-> Num(0), sw |-> Num(sourceW), sh |-> Num(sourceH)]
  ELSE IF type = "cover" THEN
    LET targetW == Num(900)
        targetH == Num(383)
        scale == RatDiv(Num(sourceW), targetW)
        cropHeight == RatMul(targetH, scale)
    IN  [targetW |-> targetW, targetH |-> targetH,
         sx |-> Num(0),
         sy |-> RatDiv(RatSub(Num(sourceH), cropHeight), Num(2)),
         sw |-> Num(sourceW), sh |-> cropHeight]
  ELSE
    LET side == MathMin(Num(sourceW), Num(sourceH))
    IN  [targetW |-> Num(500), targetH |-> Num(500),
         sx |-> RatDiv(RatSub(Num(sourceW), side), Num(2)),
         sy |-> RatDiv(RatSub(Num(sourceH), side), Num(2)),
         sw |-> side, sh |-> side]

\* Reproject with the crop origin not subtracted: pX * (targetW / sw)
Reproject_ignoresCropOrigin(x, y, sourceW, sourceH, g) ==
  LET pX == RatMul(RatDiv(x, Num(100)), Num(sourceW))
      pY == RatMul(RatDiv(y, Num(100)), Num(sourceH))
  IN  [textX |-> RatMul(pX, RatDiv(g.targetW, g.sw)),
       textY |-> RatMul(pY, RatDiv(g.targetH, g.sh))]

\* pX, pY, textX, textY of the overlay-text branch
Reproject(x, y, sourceW, sourceH, g) ==
  LET pX == RatMul(RatDiv(x, Num(100)), Num(sourceW))
      pY == RatMul(RatDiv(y, Num(100)), Num(sourceH))
  IN  [textX |-> RatMul(RatSub(pX, g.sx), RatDiv(g.targetW, g.sw)),
       textY |-> RatMul(RatSub(pY, g.sy), RatDiv(g.targetH, g.sh))]

\* targetH * 0.15 for cover and thumb, targetH * 0.08 for full
FontSize(type, targetH) ==
  IF type = "cover" THEN RatMul(targetH, Rat(15, 100))
  ELSE IF type = "thumb" THEN RatMul(targetH, Rat(15, 100))
  ELSE RatMul(targetH, Rat(8, 100))

(***************************************************************************)
(* The hidden <canvas>: its size, the drawing operations applied since it  *)
(* was last cleared, and the state of its 2d context.                      *)
(***************************************************************************)
DefaultContext ==
  [font |-> << "normal", Num(10), "sans-serif" >>, textAlign |-> "start",
   textBaseline |-> "alphabetic", shadowColor |-> "rgba(0, 0, 0, 0)",
   shadowBlur |-> Num(0), shadowOffsetX |-> Num(0), shadowOffsetY |-> Num(0),
   fillStyle |-> "#000000"]

\* a canvas element as created: 300 x 150, transparent
NewCanvas ==
  [width |-> Num(300), height |-> Num(150), ops |-> <<>>, ctx |-> DefaultContext]

\* canvas.width = w: sets the width, clears the bitmap, resets the context
SetCanvasWidth(c, w) ==
  [c EXCEPT !.width = w, !.ops = <<>>, !.ctx = DefaultContext]

\* canvas.height = h: sets the height, clears the bitmap, resets the context
SetCanvasHeight(c, h) ==
  [c EXCEPT !.height = h, !.ops = <<>>, !.ctx = DefaultContext]

\* ctx.drawImage(img, sx, sy, sw, sh, 0, 0, targetW, targetH)
DrawImage(c, img, g) ==
  [c EXCEPT !.ops = Append(@,
     [op |-> "image", img |-> img,
      sx |-> g.sx, sy |-> g.sy, sw |-> g.sw, sh |-> g.sh,
      dx |-> Num(0), dy |-> Num(0), dw |-> g.targetW, dh |-> g.targetH,
      shadowColor |-> c.ctx.shadowColor, shadowBlur |-> c.ctx.shadowBlur,
      shadowOffsetY |-> c.ctx.shadowOffsetY])]

\* the context assignments before fillText
SetTextStyle(c, fontSize, ov) ==
  [c EXCEPT !.ctx =
     [font |-> << "bold", fontSize, ov.font >>,
      textAlign |-> "center", textBaseline |-> "middle",
      shadowColor |-> "rgba(0, 0, 0, 0.8)",
      shadowBlur |-> RatDiv(fontSize, Num(3)),
      shadowOffsetX |-> Num(0),
      shadowOffsetY |-> RatDiv(fontSize, Num(10)),
      fillStyle |-> ov.color]]

\* ctx.fillText(text, x, y)
FillText(c, text, x, y) ==
  [c EXCEPT !.ops = Append(@,
     [op |-> "text", text |-> text, x |-> x, y |-> y, ctx |-> c.ctx])]

\* Compose drawing the text whenever there is text, the switch not consulted
Compose_ignoresSwitch(c, type, img, show, ov) ==
  LET sourceW == img.w
      sourceH == img.h
      g  == CropGeometry(type, sourceW, sourceH)
      c1 == SetCanvasWidth(c, g.targetW)
      c2 == SetCanvasHeight(c1, g.targetH)
      c3 == DrawImage(c2, img, g)
      p  == Reproject(ov.x, ov.y, sourceW, sourceH, g)
      fontSize == FontSize(type, g.targetH)
  IN  IF Truthy(Trim(ov.text))
      THEN FillText(SetTextStyle(c3, fontSize, ov), ov.text, p.textX, p.textY)
      ELSE c3

\* Compose assigning canvas.width / canvas.height only when the size differs
Compose_resizeIfChanged(c, type, img, show, ov) ==
  LET sourceW == img.w
      sourceH == img.h
      g  == CropGeometry(type, sourceW, sourceH)
      c1 == IF c.width # g.targetW THEN SetCanvasWidth(c, g.targetW) ELSE c
      c2 == IF c1.height # g.targetH THEN SetCanvasHeight(c1, g.targetH) ELSE c1
      c3 == DrawImage(c2, img, g)
      p  == Reproject(ov.x, ov.y, sourceW, sourceH, g)
      fontSize == FontSize(type, g.targetH)
  IN  IF show /\ Truthy(Trim(ov.text))
      THEN FillText(SetTextStyle(c3, fontSize, ov), ov.text, p.textX, p.textY)
      ELSE c3

\* the surface one export leaves behind: resize, draw the crop, draw the text
Compose(c, type, img, show, ov) ==
  LET sourceW == img.w
      sourceH == img.h
      g  == CropGeometry(type, sourceW, sourceH)
      c1 == SetCanvasWidth(c, g.targetW)
      c2 == SetCanvasHeight(c1, g.targetH)
      c3 == DrawImage(c2, img, g)
      p  == Reproject(ov.x, ov.y, sourceW, sourceH, g)
      fontSize == FontSize(type, g.targetH)
  IN  IF show /\ Truthy(Trim(ov.text))
      THEN FillText(SetTextStyle(c3, fontSize, ov), ov.text, p.textX, p.textY)
      ELSE c3

\* link.download and canvas.toDataURL('image/png', 1.0): the file offered
ToFile(c, type, req) ==
  [req |-> req, name |-> << "wechat", type >>,
   width |-> c.width, height |-> c.height, ops |-> c.ops]

(***************************************************************************)
(* State.                                                                  *)
(***************************************************************************)
VARIABLES
  prompt,          \* useState('')
  refImage,        \* useState(null): the reference image or Null
  generatedImage,  \* useState(null): the generated image or Null
  isGenerating,    \* useState(false)
  error,           \* useState(null): the message shown or Null
  activeTab,       \* useState('editor')
  showOverlay,     \* useState(false)
  overlay,         \* useState<OverlayState>
  mounted,         \* whether <App /> is rendered in the root
  listeners,       \* bag of window 'mouseup' listeners, each by the
                   \* overlay.isDragging its closure captured
  effect,          \* the listener the effect that last ran registered, or Null
  effectPending,   \* the committed render's effect has not run yet
  gen,             \* the generateCover call in flight (its closure) or Null
  readers,         \* number of FileReader loads in flight
  requests,        \* the closures of the downloadImage calls made, in order
  exports,         \* the requests (by index) whose image has not fired onload
  canvas,          \* the hidden canvas element
  files,           \* the downloads offered, in order
  dispatched       \* the pointer event handled by the last step, or "none"

vars == << prompt, refImage, generatedImage, isGenerating, error, activeTab,
           showOverlay, overlay, mounted, listeners, effect, effectPending,
           gen, readers, requests, exports, canvas, files, dispatched >>

app == << prompt, refImage, generatedImage, isGenerating, error, activeTab,
          showOverlay, overlay >>

fx == << listeners, effect, effectPending >>

io == << gen, readers >>

export == << requests, exports, canvas, files >>

InitialOverlay ==
  [text |-> <<>>, color |-> "#ffffff", font |-> FONTS[1],
   x |-> Num(50), y |-> Num(50), isDragging |-> FALSE]

Init ==
  /\ prompt = <<>>
  /\ refImage = Null
  /\ generatedImage = Null
  /\ isGenerating = FALSE
  /\ error = Null
  /\ activeTab = "editor"
  /\ showOverlay = FALSE
  /\ overlay = InitialOverlay
  /\ mounted = TRUE
  /\ listeners = EmptyBag
  /\ effect = Null
  /\ effectPending = TRUE
  /\ gen = Null
  /\ readers = 0
  /\ requests = <<>>
  /\ exports = {}
  /\ canvas = NewCanvas
  /\ files = <<>>
  /\ dispatched = "none"

(***************************************************************************)
(* The effect registering handleGlobalMouseUp, deps [overlay.isDragging].  *)
(***************************************************************************)
\* Cleanup with the removal forgotten (the effect returns nothing)
Cleanup_keepsListener(ls, eff) == ls

\* the cleanup function: window.removeEventListener('mouseup', handler)
Cleanup(ls, eff) ==
  IF eff = Null THEN ls ELSE ls (-) SetToBag({eff})

\* cleanup of the previous run, then window.addEventListener('mouseup', ...)
\* with a handler whose closure holds isDragging
EffectListeners(ls, eff, isDragging) ==
  Cleanup(ls, eff) (+) SetToBag({[isDragging |-> isDragging]})

\* a state update is rendered and committed: React first runs the effect
\* still pending from the previous commit, and the new commit's effect is
\* pending (to run after the commit) iff the dependency changed
Render(isDragging) ==
  /\ listeners' = IF effectPending
                  THEN EffectListeners(listeners, effect, overlay.isDragging)
                  ELSE listeners
  /\ effect' = IF effectPending THEN [isDragging |-> overlay.isDragging]
               ELSE effect
  /\ effectPending' = (isDragging # overlay.isDragging)

\* the pending effect runs (after the commit, as a step of its own)
RunEffect ==
  /\ mounted
  /\ effectPending
  /\ listeners' = EffectListeners(listeners, effect, overlay.isDragging)
  /\ effect' = [isDragging |-> overlay.isDragging]
  /\ effectPending' = FALSE
  /\ dispatched' = "none"
  /\ UNCHANGED << app, io, export, mounted >>

\* the root is torn down: pending effects run, then every cleanup
Unmount ==
  /\ mounted
  /\ mounted' = FALSE
  /\ listeners' = Cleanup(IF effectPending
                          THEN EffectListeners(listeners, effect, overlay.isDragging)
                          ELSE listeners,
                          IF effectPending THEN [isDragging |-> overlay.isDragging]
                          ELSE effect)
  /\ effect' = Null
  /\ effectPending' = FALSE
  /\ dispatched' = "none"
  /\ UNCHANGED << app, io, export >>

(***************************************************************************)
(* Inputs: prompt, reference image, overlay controls, tabs.                *)
(***************************************************************************)
\* onChange of the prompt textarea
setPrompt(p) ==
  /\ mounted
  /\ prompt' = p
  /\ Render(overlay.isDragging)
  /\ dispatched' = "none"
  /\ UNCHANGED << refImage, generatedImage, isGenerating, error, activeTab,
                  showOverlay, overlay, mounted, io, export >>

\* onChange of the file input (rendered while there is no reference image);
\* file is the size of e.target.files[0], or Null when no file was chosen
handleImageUpload(file) ==
  /\ mounted
  /\ refImage = Null
  /\ dispatched' = "none"
  /\ IF file = Null THEN
       UNCHANGED << app, fx, io >>
     ELSE IF file.size > MaxUploadBytes THEN
       /\ error' = ErrTooLarge
       /\ Render(overlay.isDragging)
       /\ UNCHANGED << prompt, refImage, generatedImage, isGenerating,
                       activeTab, showOverlay, overlay, io >>
     ELSE
       /\ readers < MaxReaders
       /\ readers' = readers + 1
       /\ UNCHANGED << app, fx, gen >>
  /\ UNCHANGED << mounted, export >>

\* reader.onload
readerOnload ==
  /\ readers > 0
  /\ readers' = readers - 1
  /\ dispatched' = "none"
  /\ IF mounted THEN
       /\ refImage' = UploadedImage
       /\ error' = Null
       /\ Render(overlay.isDragging)
     ELSE UNCHANGED << refImage, error, fx >>
  /\ UNCHANGED << prompt, generatedImage, isGenerating, activeTab, showOverlay,
                  overlay, mounted, gen, export >>

\* the X button on the reference image: setRefImage(null)
clearRefImage ==
  /\ mounted
  /\ refImage # Null
  /\ refImage' = Null
  /\ Render(overlay.isDragging)
  /\ dispatched' = "none"
  /\ UNCHANGED << prompt, generatedImage, isGenerating, error, activeTab,
                  showOverlay, overlay, mounted, io, export >>

\* the Refine / Modify button (rendered while there is a generated image)
handleRefine ==
  /\ mounted
  /\ generatedImage # Null
  /\ refImage' = generatedImage
  /\ error' = Null
  /\ Render(overlay.isDragging)
  /\ dispatched' = "none"
  /\ UNCHANGED << prompt, generatedImage, isGenerating, activeTab, showOverlay,
                  overlay, mounted, io, export >>

\* the Draggable Text switch: setShowOverlay(!showOverlay)
toggleOverlay ==
  /\ mounted
  /\ showOverlay' = ~showOverlay
  /\ Render(overlay.isDragging)
  /\ dispatched' = "none"
  /\ UNCHANGED << prompt, refImage, generatedImage, isGenerating, error,
                  activeTab, overlay, mounted, io, export >>

\* the text input, font selector and color picker (rendered while showOverlay)
setOverlayField(field, value) ==
  /\ mounted
  /\ showOverlay
  /\ overlay' = [overlay EXCEPT ![field] = value]
  /\ Render(overlay.isDragging)
  /\ dispatched' = "none"
  /\ UNCHANGED << prompt, refImage, generatedImage, isGenerating, error,
                  activeTab, showOverlay, mounted, io, export >>

setText == \E t \in Texts : setOverlayField("text", t)

setFont == \E i \in DOMAIN FONTS : setOverlayField("font", FONTS[i])

setColor == \E c \in Colors : setOverlayField("color", c)

\* the Editor / Preview buttons (rendered while there is a generated image)
setActiveTab(tab) ==
  /\ mounted
  /\ generatedImage # Null
  /\ activeTab' = tab
  /\ Render(overlay.isDragging)
  /\ dispatched' = "none"
  /\ UNCHANGED << prompt, refImage, generatedImage, isGenerating, error,
                  showOverlay, overlay, mounted, io, export >>

(***************************************************************************)
(* generateCover.                                                          *)
(***************************************************************************)
\* generateCover with the `return` after the validation message forgotten
generateCover_noReturn ==
  /\ mounted
  /\ ~isGenerating
  /\ dispatched' = "none"
  /\ isGenerating' = TRUE
  /\ error' = Null
  /\ gen' = [showOverlay |-> showOverlay, text |-> overlay.text]
  /\ Render(overlay.isDragging)
  /\ UNCHANGED << prompt, refImage, generatedImage, activeTab, showOverlay,
                  overlay, mounted, readers, export >>

\* the click on Generate Cover (disabled while isGenerating): validation,
\* then the request up to the await
generateCover ==
  /\ mounted
  /\ ~isGenerating
  /\ dispatched' = "none"
  /\ IF ~Truthy(Trim(prompt)) /\ refImage = Null THEN
       /\ error' = ErrNoInput
       /\ UNCHANGED << isGenerating, gen >>
     ELSE
       /\ isGenerating' = TRUE
       /\ error' = Null
       /\ gen' = [showOverlay |-> showOverlay, text |-> overlay.text]
  /\ Render(overlay.isDragging)
  /\ UNCHANGED << prompt, refImage, generatedImage, activeTab, showOverlay,
                  overlay, mounted, readers, export >>

\* what the awaited ai.models.generateContent call ends with
Responses ==
  {[kind |-> "throws", message |-> m] : m \in {"", "quota exceeded"}}
    \cup {[kind |-> "parts", image |-> i] : i \in GeneratedImages \cup {Null}}

\* err.message || "Failed to generate image."
ErrorMessage(message) == IF message # "" THEN Err(message) ELSE ErrFailed

\* generateSettled with the image state cleared in the catch block
generateSettled_clearsImage(response) ==
  /\ gen # Null
  /\ gen' = Null
  /\ dispatched' = "none"
  /\ IF ~mounted THEN
       UNCHANGED << app, fx >>
     ELSE IF response.kind = "parts" /\ response.image # Null THEN
       /\ generatedImage' = response.image
       /\ activeTab' = "editor"
       /\ showOverlay' = IF ~gen.showOverlay /\ Truthy(gen.text)
                         THEN TRUE ELSE showOverlay
       /\ isGenerating' = FALSE
       /\ Render(overlay.isDragging)
       /\ UNCHANGED << prompt, refImage, error, overlay >>
     ELSE
       /\ error' = IF response.kind = "throws"
                   THEN ErrorMessage(response.message) ELSE ErrNoImage
       /\ generatedImage' = Null
       /\ isGenerating' = FALSE
       /\ Render(overlay.isDragging)
       /\ UNCHANGED << prompt, refImage, activeTab, showOverlay, overlay >>
  /\ UNCHANGED << mounted, readers, export >>

\* the continuation after the await: try body, catch, finally
generateSettled(response) ==
  /\ gen # Null
  /\ gen' = Null
  /\ dispatched' = "none"
  /\ IF ~mounted THEN
       UNCHANGED << app, fx >>
     ELSE IF response.kind = "parts" /\ response.image # Null THEN
       /\ generatedImage' = response.image
       /\ activeTab' = "editor"
       /\ showOverlay' = IF ~gen.showOverlay /\ Truthy(gen.text)
                         THEN TRUE ELSE showOverlay
       /\ isGenerating' = FALSE
       /\ Render(overlay.isDragging)
       /\ UNCHANGED << prompt, refImage, error, overlay >>
     ELSE
       /\ error' = IF response.kind = "throws"
                   THEN ErrorMessage(response.message) ELSE ErrNoImage
       /\ isGenerating' = FALSE
       /\ Render(overlay.isDragging)
       /\ UNCHANGED << prompt, refImage, generatedImage, activeTab,
                       showOverlay, overlay >>
  /\ UNCHANGED << mounted, readers, export >>

(***************************************************************************)
(* Dragging: the handlers bound to the draggable container, which is       *)
(* rendered while there is a generated image and the editor tab is active. *)
(***************************************************************************)
ContainerRendered == mounted /\ generatedImage # Null /\ activeTab = "editor"

\* handleMouseDown without the `if (!showOverlay) return`
handleMouseDown_noGuard ==
  /\ ContainerRendered
  /\ dispatched' = "mousedown"
  /\ overlay' = [overlay EXCEPT !.isDragging = TRUE]
  /\ Render(TRUE)
  /\ UNCHANGED << prompt, refImage, generatedImage, isGenerating, error,
                  activeTab, showOverlay, mounted, io, export >>

\* onMouseDown
handleMouseDown ==
  /\ ContainerRendered
  /\ dispatched' = "mousedown"
  /\ IF ~showOverlay THEN
       UNCHANGED << overlay, fx >>
     ELSE
       /\ overlay' = [overlay EXCEPT !.isDragging = TRUE]
       /\ Render(TRUE)
  /\ UNCHANGED << prompt, refImage, generatedImage, isGenerating, error,
                  activeTab, showOverlay, mounted, io, export >>

\* Clamp with the upper bound forgotten: Math.max(0, v)
Clamp_noUpperBound(v) == MathMax(Num(0), v)

\* Math.max(0, Math.min(100, v))
Clamp(v) == MathMax(Num(0), MathMin(Num(100), v))

\* ((client - rect.left) / rect.width) * 100
Percent(offset, size) == RatMul(RatDiv(Num(offset), Num(size)), Num(100))

\* onMouseMove; dx = e.clientX - rect.left, dy = e.clientY - rect.top,
\* rect the bounding box of the container
handleMouseMove(dx, dy, rect) ==
  /\ ContainerRendered
  /\ dispatched' = "mousemove"
  /\ IF ~overlay.isDragging THEN
       UNCHANGED << overlay, fx >>
     ELSE
       /\ overlay' = [overlay EXCEPT !.x = Clamp(Percent(dx, rect.width)),
                                     !.y = Clamp(Percent(dy, rect.height))]
       /\ Render(overlay.isDragging)
  /\ UNCHANGED << prompt, refImage, generatedImage, isGenerating, error,
                  activeTab, showOverlay, mounted, io, export >>

\* onMouseUp and onMouseLeave are both bound to handleMouseUp
handleMouseUp(event) ==
  /\ ContainerRendered
  /\ dispatched' = event
  /\ overlay' = [overlay EXCEPT !.isDragging = FALSE]
  /\ Render(FALSE)
  /\ UNCHANGED << prompt, refImage, generatedImage, isGenerating, error,
                  activeTab, showOverlay, mounted, io, export >>

\* whether a registered window listener resets the drag: its closure's
\* overlay.isDragging decides
ListenerResets(ls) == \E l \in BagToSet(ls) : l.isDragging

\* a mouseup reaches window: every registered handleGlobalMouseUp runs
handleGlobalMouseUp ==
  /\ dispatched' = "window-mouseup"
  /\ IF mounted /\ ListenerResets(listeners) THEN
       /\ overlay' = [overlay EXCEPT !.isDragging = FALSE]
       /\ Render(FALSE)
     ELSE UNCHANGED << overlay, fx >>
  /\ UNCHANGED << prompt, refImage, generatedImage, isGenerating, error,
                  activeTab, showOverlay, mounted, io, export >>

\* the bounding box of the container, and the pointer positions reported
\* relative to its top-left corner: inside it, on its border, outside it
Rects == {[width |-> BoxSide, height |-> BoxSide]}

Pointers ==
  { << 1, 2 >>, << 0, BoxSide >>, << -1, 1 >>, << BoxSide + 1, BoxSide + 2 >> }

(***************************************************************************)
(* downloadImage.                                                          *)
(***************************************************************************)
\* downloadImage composing and serializing at once, not in img.onload
downloadImage_drawsAtOnce(type) ==
  /\ mounted
  /\ generatedImage # Null
  /\ Len(requests) < MaxExports
  /\ requests' = Append(requests,
       [type |-> type, img |-> generatedImage,
        showOverlay |-> showOverlay, overlay |-> overlay])
  /\ exports' = exports \cup {Len(requests) + 1}
  /\ dispatched' = "none"
  /\ LET drawn == Compose(canvas, type, generatedImage, showOverlay, overlay)
     IN  /\ canvas' = drawn
         /\ files' = Append(files, ToFile(drawn, type, Len(requests) + 1))
  /\ UNCHANGED << app, mounted, fx, io >>

\* the click on an export button (rendered while there is a generated
\* image), up to img.src = generatedImage
downloadImage(type) ==
  /\ mounted
  /\ generatedImage # Null
  /\ Len(requests) < MaxExports
  /\ requests' = Append(requests,
       [type |-> type, img |-> generatedImage,
        showOverlay |-> showOverlay, overlay |-> overlay])
  /\ exports' = exports \cup {Len(requests) + 1}
  /\ dispatched' = "none"
  /\ UNCHANGED << app, mounted, fx, io, canvas, files >>

\* img.onload of request r: the image has decoded
imgOnload(r) ==
  /\ r \in exports
  /\ LET q == requests[r]
         drawn == Compose(canvas, q.type, q.img, q.showOverlay, q.overlay)
     IN  /\ canvas' = drawn
         /\ files' = Append(files, ToFile(drawn, q.type, r))
  /\ exports' = exports \ {r}
  /\ dispatched' = "none"
  /\ UNCHANGED << app, mounted, fx, io, requests >>

(***************************************************************************)
(* The application: every handler, effect and continuation of App.  Its    *)
(* state space is the product of independent parts (inputs, dragging,      *)
(* exports); the claims are checked on the slices defined below.           *)
(***************************************************************************)
Next ==
  \/ \E p \in Prompts : setPrompt(p)
  \/ \E f \in {Null} \cup {[size |-> n] : n \in FileSizes} : handleImageUpload(f)
  \/ readerOnload
  \/ clearRefImage
  \/ handleRefine
  \/ toggleOverlay
  \/ setText
  \/ setFont
  \/ setColor
  \/ \E tab \in {"editor", "preview"} : setActiveTab(tab)
  \/ generateCover
  \/ \E response \in Responses : generateSettled(response)
  \/ handleMouseDown
  \/ \E p \in Pointers, rect \in Rects : handleMouseMove(p[1], p[2], rect)
  \/ \E event \in {"mouseup", "mouseleave"} : handleMouseUp(event)
  \/ handleGlobalMouseUp
  \/ RunEffect
  \/ Unmount
  \/ \E type \in Kinds : downloadImage(type)
  \/ \E r \in exports : imgOnload(r)

Spec == Init /\ [][Next]_vars

(***************************************************************************)
(* Slices of the application: the same actions, fewer of them.  An action  *)
(* left out of a slice writes none of the variables the slice's claims     *)
(* read, and none that the guards of the slice's actions read.             *)
(***************************************************************************)
\* generation, the overlay switch and text, tabs, dragging, the effect
DragNext ==
  \/ \E p \in Prompts : setPrompt(p)
  \/ generateCover
  \/ \E response \in Responses : generateSettled(response)
  \/ toggleOverlay
  \/ setText
  \/ setFont
  \/ setColor
  \/ \E tab \in {"editor", "preview"} : setActiveTab(tab)
  \/ handleMouseDown
  \/ \E p \in Pointers, rect \in Rects : handleMouseMove(p[1], p[2], rect)
  \/ \E event \in {"mouseup", "mouseleave"} : handleMouseUp(event)
  \/ handleGlobalMouseUp
  \/ RunEffect
  \/ Unmount

DragSpec == Init /\ [][DragNext]_vars

\* prompt, upload, reference image, generation, overlay controls
InputNext ==
  \/ \E p \in Prompts : setPrompt(p)
  \/ \E f \in {Null} \cup {[size |-> n] : n \in FileSizes} : handleImageUpload(f)
  \/ readerOnload
  \/ clearRefImage
  \/ handleRefine
  \/ generateCover
  \/ \E response \in Responses : generateSettled(response)
  \/ toggleOverlay
  \/ setText
  \/ setFont
  \/ setColor
  \/ RunEffect

InputSpec == Init /\ [][InputNext]_vars

\* the editor with a generated image on screen, the overlay enabled, its
\* text typed and dragged to the pointer position (1, 2): a state Init
\* reaches by setPrompt, generateCover, generateSettled, toggleOverlay,
\* setText, handleMouseDown, handleMouseMove, handleMouseUp, RunEffect
EditorInit ==
  /\ prompt = << "p" >>
  /\ refImage = Null
  /\ generatedImage = Image(1200, 800)
  /\ isGenerating = FALSE
  /\ error = Null
  /\ activeTab = "editor"
  /\ showOverlay = TRUE
  /\ overlay = [InitialOverlay EXCEPT !.text = << "A" >>,
                                      !.x = Clamp(Percent(1, BoxSide)),
                                      !.y = Clamp(Percent(2, BoxSide))]
  /\ mounted = TRUE
  /\ listeners = SetToBag({[isDragging |-> FALSE]})
  /\ effect = [isDragging |-> FALSE]
  /\ effectPending = FALSE
  /\ gen = Null
  /\ readers = 0
  /\ requests = <<>>
  /\ exports = {}
  /\ canvas = NewCanvas
  /\ files = <<>>
  /\ dispatched = "none"

\* the overlay switch and color, export requests and decode completions in
\* any order
ExportNext ==
  \/ toggleOverlay
  \/ setColor
  \/ \E type \in Kinds : downloadImage(type)
  \/ \E r \in exports : imgOnload(r)

ExportSpec == EditorInit /\ [][ExportNext]_vars

\* the overlay switch and text, and exports requested one after another
\* (each once the previous download has been offered)
TextExportNext ==
  \/ toggleOverlay
  \/ setText
  \/ exports = {} /\ \E type \in Kinds : downloadImage(type)
  \/ \E r \in exports : imgOnload(r)

TextExportSpec == EditorInit /\ [][TextExportNext]_vars

(***************************************************************************)
(* Crop geometry and re-projection as functions of the source size and the *)
(* overlay position: the editor with any source image and position, and    *)
(* the export actions applied to it.                                       *)
(***************************************************************************)
CropImages ==
  {Image(w, h) : w \in 1 .. MaxDim, h \in 1 .. MaxDim}
    \cup {Image(1200, 800), Image(1600, 900), Image(900, 300), Image(900, 383)}

\* overlay positions (x, y): the initial centre, and positions a drag leaves
CropPositions ==
  { << Num(50), Num(50) >>, << Num(0), Num(100) >>,
    << Rat(100, 3), Rat(200, 3) >>, << Num(100), Num(0) >> }

CropInit ==
  /\ prompt = << "p" >>
  /\ refImage = Null
  /\ generatedImage \in CropImages
  /\ isGenerating = FALSE
  /\ error = Null
  /\ activeTab = "editor"
  /\ showOverlay = TRUE
  /\ \E p \in CropPositions :
       overlay = [InitialOverlay EXCEPT !.text = << "A" >>, !.x = p[1], !.y = p[2]]
  /\ mounted = TRUE
  /\ listeners = SetToBag({[isDragging |-> FALSE]})
  /\ effect = [isDragging |-> FALSE]
  /\ effectPending = FALSE
  /\ gen = Null
  /\ readers = 0
  /\ requests = <<>>
  /\ exports = {}
  /\ canvas = NewCanvas
  /\ files = <<>>
  /\ dispatched = "none"

CropNext ==
  \/ \E type \in Kinds : downloadImage(type)
  \/ \E r \in exports : imgOnload(r)

CropSpec == CropInit /\ [][CropNext]_vars

(***************************************************************************)
(* Claims.                                                                 *)
(***************************************************************************)
InUnitRange(v) == RatLE(Num(0), v) /\ RatLE(v, Num(100))

\* C1: in every reachable state the overlay position satisfies
\* 0 <= x <= 100 and 0 <= y <= 100, also after a pointer-move that reports
\* a position outside the bounding box of the draggable region.
C1_PositionInRange == InUnitRange(overlay.x) /\ InUnitRange(overlay.y)

\* C1 witness: a drag has just handled a pointer-move whose position lies
\* beyond the right and bottom edges of the box (the only pointer that
\* yields x = 100): the position was clamped to (100, 100).
C1_ClampedMove ==
  /\ dispatched = "mousemove"
  /\ overlay.isDragging
  /\ overlay.x = Num(100)
  /\ overlay.y = Num(100)

C3_DragStartsOnlyOnEnabledPointerDown ==
  [][ /\ (~overlay.isDragging /\ overlay'.isDragging)
          => (dispatched' = "mousedown" /\ showOverlay)
      /\ (dispatched' = "mousedown" /\ ~showOverlay)
          => overlay' = overlay ]_vars

\* C3 witness: a pointer-down with the overlay enabled has started a drag.
C3_DragStarted ==
  dispatched = "mousedown" /\ showOverlay /\ overlay.isDragging

\* the file holds a text drawing operation
TextDrawn(file) == \E i \in DOMAIN file.ops : file.ops[i].op = "text"

\* C4 as claimed: every exported file, of every kind, contains the text if
\* and only if the overlay was enabled and its text non-empty when the
\* export was requested.
C4_TextIffEnabledAndNonEmpty ==
  \A i \in DOMAIN files :
    LET q == requests[files[i].req]
    IN  TextDrawn(files[i]) <=> (q.showOverlay /\ q.overlay.text # <<>>)

\* C4 as amended: every exported file, of every kind, contains the text if
\* and only if the overlay was enabled and its text, with leading and
\* trailing whitespace trimmed, non-empty when the export was requested; in
\* particular no export requested with showOverlay = FALSE draws text.
C4_TextIffEnabledAndNonBlank ==
  \A i \in DOMAIN files :
    LET q == requests[files[i].req]
    IN  /\ TextDrawn(files[i]) <=> (q.showOverlay /\ Trim(q.overlay.text) # <<>>)
        /\ ~q.showOverlay => ~TextDrawn(files[i])

\* C4 witness: files of two kinds exported with non-empty overlay text, one
\* with the overlay enabled (text drawn), one with it disabled (no text).
C4_EnabledAndDisabledExports ==
  \E i, j \in DOMAIN files :
    /\ requests[files[i].req].showOverlay
    /\ requests[files[i].req].overlay.text = << "A" >>
    /\ TextDrawn(files[i])
    /\ ~requests[files[j].req].showOverlay
    /\ requests[files[j].req].overlay.text = << "A" >>
    /\ ~TextDrawn(files[j])
    /\ files[i].name # files[j].name

FailedResponse(response) ==
  response.kind = "throws" \/ response.image = Null

\* C5: when a generation request fails (the collaborator throws or returns
\* no image part), the step that handles the failure leaves the generated
\* image and the overlay state (text, color, font, x, y) as they were and
\* sets an error message; the generated image is only ever Null or a whole
\* image a response carried.
C5_FailureKeepsImageAndOverlay ==
  [][ /\ \A response \in Responses :
           (FailedResponse(response) /\ generateSettled(response))
             => /\ generatedImage' = generatedImage
                /\ overlay' = overlay
                /\ showOverlay' = showOverlay
                /\ error' # Null
      /\ generatedImage' \in GeneratedImages \cup {Null} ]_vars

\* C5 witness: a generation has failed while an earlier generated image and
\* a typed overlay text were present; both are still there.
C5_FailedWithImageKept ==
  /\ error \in {ErrNoImage, ErrFailed, Err("quota exceeded")}
  /\ generatedImage # Null
  /\ overlay.text = << "A" >>
  /\ ~isGenerating

\* C6: every input validation rejection (an upload larger than 4 MiB, a
\* generate request with a blank prompt and no reference image) sets the
\* error message and leaves the overlay state, the reference image and the
\* generated image unchanged, begins no file read and starts no generation.
C6_RejectionTouchesNothing ==
  [][ \A f \in {[size |-> n] : n \in FileSizes} :
        (\/ f.size > 4 * 1024 * 1024 /\ handleImageUpload(f)
         \/ ~Truthy(Trim(prompt)) /\ refImage = Null /\ generateCover)
          => /\ error' \in {ErrTooLarge, ErrNoInput}
             /\ overlay' = overlay
             /\ showOverlay' = showOverlay
             /\ refImage' = refImage
             /\ generatedImage' = generatedImage
             /\ isGenerating' = isGenerating
             /\ gen' = gen
             /\ readers' = readers ]_vars

\* C6 witness: a generate request was rejected for a blank (whitespace)
\* prompt while a generated image and overlay text were present.
C6_RejectedBlankPrompt ==
  /\ error = ErrNoInput
  /\ prompt = << " " >>
  /\ generatedImage # Null
  /\ overlay.text = << "A" >>
  /\ ~isGenerating

\* the number of files offered for request r
FilesOf(r) == Cardinality({i \in DOMAIN files : files[i].req = r})

\* the file has the size of its kind, the crop drawn over the whole surface
\* and, when its request asks for text, the text drawn after the crop
Complete(file) ==
  LET q == requests[file.req]
      g == CropGeometry(q.type, q.img.w, q.img.h)
      wantsText == q.showOverlay /\ Truthy(Trim(q.overlay.text))
  IN  /\ file.width = g.targetW
      /\ file.height = g.targetH
      /\ Len(file.ops) = IF wantsText THEN 2 ELSE 1
      /\ file.ops[1].op = "image"
      /\ file.ops[1].dw = g.targetW
      /\ file.ops[1].dh = g.targetH
      /\ wantsText => file.ops[2].op = "text"

\* C7: the surface is sized, drawn on and serialized only in the step that
\* handles the decoded image, all at once: a request that is still waiting
\* for its image has no file, a request whose image has decoded has exactly
\* one, every file offered is complete, and the surface is never left in a
\* state between two files (it is as created, or as the last file shows it).
C7_OneCompleteFileOrNothing ==
  /\ \A r \in DOMAIN requests :
       FilesOf(r) = IF r \in exports THEN 0 ELSE 1
  /\ \A i \in DOMAIN files : Complete(files[i])
  /\ IF files = <<>> THEN canvas = NewCanvas
     ELSE /\ canvas.width = files[Len(files)].width
          /\ canvas.height = files[Len(files)].height
          /\ canvas.ops = files[Len(files)].ops

\* C7 witness: one request has ended with a complete file holding text
\* while another request is still waiting for its image to decode.
C7_OneDoneOnePending ==
  /\ Len(files) = 1
  /\ TextDrawn(files[1])
  /\ exports # {}

\* the file a request yields when it is the only one using the surface,
\* written out from the request's own kind, image and overlay state
OwnFile(r) ==
  LET q == requests[r]
      g == CropGeometry(q.type, q.img.w, q.img.h)
      p == Reproject(q.overlay.x, q.overlay.y, q.img.w, q.img.h, g)
      fontSize == FontSize(q.type, g.targetH)
      image == [op |-> "image", img |-> q.img,
                sx |-> g.sx, sy |-> g.sy, sw |-> g.sw, sh |-> g.sh,
                dx |-> Num(0), dy |-> Num(0), dw |-> g.targetW, dh |-> g.targetH,
                shadowColor |-> "rgba(0, 0, 0, 0)", shadowBlur |-> Num(0),
                shadowOffsetY |-> Num(0)]
      text == [op |-> "text", text |-> q.overlay.text,
               x |-> p.textX, y |-> p.textY,
               ctx |-> [font |-> << "bold", fontSize, q.overlay.font >>,
                        textAlign |-> "center", textBaseline |-> "middle",
                        shadowColor |-> "rgba(0, 0, 0, 0.8)",
                        shadowBlur |-> RatDiv(fontSize, Num(3)),
                        shadowOffsetX |-> Num(0),
                        shadowOffsetY |-> RatDiv(fontSize, Num(10)),
                        fillStyle |-> q.overlay.color]]
  IN  [req |-> r, name |-> << "wechat", q.type >>,
       width |-> g.targetW, height |-> g.targetH,
       ops |-> IF q.showOverlay /\ Truthy(Trim(q.overlay.text))
               THEN << image, text >> ELSE << image >>]

\* C8: export requests are independent under any interleaving of requests
\* and decode completions: every file offered is the file its own request
\* yields alone (target size, crop and text placement of its kind, from the
\* overlay state and image it was issued with), whatever other exports used
\* the surface before it.
C8_FilesIndependent ==
  \A i \in DOMAIN files : files[i] = OwnFile(files[i].req)

\* C8 witness: two requests of different kinds, issued with different
\* overlay states (switch and color), completed in the reverse order, the
\* first file with text (so the context carried a shadow style when the
\* second was drawn).
C8_InterleavedExports ==
  /\ Len(files) = 2
  /\ files[1].req = 2
  /\ files[2].req = 1
  /\ requests[1].type # requests[2].type
  /\ requests[1].showOverlay # requests[2].showOverlay
  /\ requests[1].overlay.color # requests[2].overlay.color
  /\ TextDrawn(files[1])
  /\ ~TextDrawn(files[2])

\* C9: at every point at most one window-level pointer-up listener is
\* registered (a re-registration removes the previous listener first), and
\* after the view is torn down none is registered.
C9_ListenerDeregistered ==
  /\ BagCardinality(listeners) <= 1
  /\ ~mounted => listeners = EmptyBag

\* C9 witness: the view was torn down in the middle of a drag, after the
\* effect had re-registered the listener for isDragging = TRUE; no listener
\* is left.
C9_TornDownWhileDragging ==
  /\ ~mounted
  /\ overlay.isDragging
  /\ listeners = EmptyBag

\* the text drawing operation of a file
TextOp(file) == file.ops[CHOOSE i \in DOMAIN file.ops : file.ops[i].op = "text"]

\* C10: an overlay at the normalized position (50, 50) is re-projected to
\* the exact centre (targetW / 2, targetH / 2) of the output, for the icon,
\* the full and the cover kind and any positive source dimensions.
C10_CentreStaysCentre ==
  \A i \in DOMAIN files :
    LET q == requests[files[i].req]
    IN  (q.overlay.x = Num(50) /\ q.overlay.y = Num(50))
          => /\ TextDrawn(files[i])
             /\ TextOp(files[i]).x = RatDiv(files[i].width, Num(2))
             /\ TextOp(files[i]).y = RatDiv(files[i].height, Num(2))

\* C10 witness: the icon export of a 1200 x 800 source with the overlay at
\* (50, 50) has its text at (250, 250).
C10_IconCentre ==
  \E i \in DOMAIN files :
    LET q == requests[files[i].req]
    IN  /\ q.type = "thumb"
        /\ q.img = Image(1200, 800)
        /\ q.overlay.x = Num(50) /\ q.overlay.y = Num(50)
        /\ TextOp(files[i]).x = Num(250)
        /\ TextOp(files[i]).y = Num(250)

RatAdd(p, q) == Rat(p.n * q.d + q.n * p.d, p.d * q.d)

\* |p - q| <= tol
Near(p, q, tol) == RatLE(RatSub(p, q), tol) /\ RatLE(RatSub(q, p), tol)

\* the drawImage operation of a file
ImageOp(file) == file.ops[CHOOSE i \in DOMAIN file.ops : file.ops[i].op = "image"]

\* C11: for the cover kind and any positive source dimensions the output is
\* 900 x 383 and the crop is sx = 0, sw = sourceW, sh = 383 * sourceW / 900,
\* sy = (sourceH - sh) / 2; so sw : sh = 900 : 383 and the crop's vertical
\* middle is the source's (sy + sh / 2 = sourceH / 2); for a 1600 x 900
\* source sh is 681 to the nearest unit and sy is within 0.1 of 109.5.
C11_CoverGeometry ==
  \A i \in DOMAIN files :
    LET q == requests[files[i].req]
        d == ImageOp(files[i])
        sourceW == Num(q.img.w)
        sourceH == Num(q.img.h)
        sh == Rat(383 * q.img.w, 900)
    IN  q.type = "cover"
          => /\ files[i].width = Num(900) /\ files[i].height = Num(383)
             /\ d.dx = Num(0) /\ d.dy = Num(0)
             /\ d.dw = Num(900) /\ d.dh = Num(383)
             /\ d.sx = Num(0)
             /\ d.sw = sourceW
             /\ d.sh = sh
             /\ d.sy = RatDiv(RatSub(sourceH, sh), Num(2))
             /\ RatMul(d.sw, Num(383)) = RatMul(d.sh, Num(900))
             /\ RatAdd(d.sy, RatDiv(d.sh, Num(2))) = RatDiv(sourceH, Num(2))
             /\ q.img = Image(1600, 900)
                  => /\ Near(d.sh, Num(681), Rat(1, 2))
                     /\ Near(d.sy, Rat(219, 2), Rat(1, 10))

\* C11 witness: the cover export of a 1600 x 900 source has been offered,
\* cropped at sy = 986/9 (109.55...) with sh = 6128/9 (680.88...).
C11_CoverOf1600x900 ==
  \E i \in DOMAIN files :
    LET q == requests[files[i].req]
    IN  /\ q.type = "cover"
        /\ q.img = Image(1600, 900)
        /\ ImageOp(files[i]).sh = Rat(6128, 9)
        /\ ImageOp(files[i]).sy = Rat(986, 9)

\* C12: for the icon kind and any positive source dimensions the output is
\* 500 x 500 and the crop is a square of side min(sourceW, sourceH) whose
\* centre is the source's centre: sx + sw / 2 = sourceW / 2 and
\* sy + sh / 2 = sourceH / 2.
C12_IconSquareCentred ==
  \A i \in DOMAIN files :
    LET q == requests[files[i].req]
        d == ImageOp(files[i])
        side == IF q.img.w <= q.img.h THEN q.img.w ELSE q.img.h
    IN  q.type = "thumb"
          => /\ files[i].width = Num(500) /\ files[i].height = Num(500)
             /\ d.dx = Num(0) /\ d.dy = Num(0)
             /\ d.dw = Num(500) /\ d.dh = Num(500)
             /\ d.sw = Num(side)
             /\ d.sh = Num(side)
             /\ RatAdd(d.sx, RatDiv(d.sw, Num(2))) = Rat(q.img.w, 2)
             /\ RatAdd(d.sy, RatDiv(d.sh, Num(2))) = Rat(q.img.h, 2)

\* C12 witness: the icon export of a 1200 x 800 source has been offered,
\* cropped to the 800 x 800 square at (200, 0).
C12_IconOf1200x800 ==
  \E i \in DOMAIN files :
    LET q == requests[files[i].req]
    IN  /\ q.type = "thumb"
        /\ q.img = Image(1200, 800)
        /\ ImageOp(files[i]).sx = Num(200)
        /\ ImageOp(files[i]).sy = Num(0)
        /\ ImageOp(files[i]).sw = Num(800)
        /\ ImageOp(files[i]).sh = Num(800)

\* C13: for the full kind and any positive source dimensions the output has
\* the source's size and the crop is the whole source, (0, 0, sourceW,
\* sourceH) drawn to (0, 0, sourceW, sourceH); and the text, when drawn, is
\* placed at the plain percentage-of-size position (x / 100 * sourceW,
\* y / 100 * sourceH) of its overlay position (x, y) in [0, 100].
C13_FullIsIdentity ==
  \A i \in DOMAIN files :
    LET q == requests[files[i].req]
        d == ImageOp(files[i])
        sourceW == Num(q.img.w)
        sourceH == Num(q.img.h)
    IN  q.type = "full"
          => /\ files[i].width = sourceW /\ files[i].height = sourceH
             /\ d.sx = Num(0) /\ d.sy = Num(0)
             /\ d.sw = sourceW /\ d.sh = sourceH
             /\ d.dx = Num(0) /\ d.dy = Num(0)
             /\ d.dw = sourceW /\ d.dh = sourceH
             /\ (TextDrawn(files[i]) /\ InUnitRange(q.overlay.x)
                                     /\ InUnitRange(q.overlay.y))
                  => /\ TextOp(files[i]).x
                          = Rat(q.overlay.x.n * q.img.w, q.overlay.x.d * 100)
                     /\ TextOp(files[i]).y
                          = Rat(q.overlay.y.n * q.img.h, q.overlay.y.d * 100)

\* C13 witness: the full export of a 1200 x 800 source with the overlay at
\* (100/3, 200/3) has been offered, its text at (400, 1600/3).
C13_FullOffCentre ==
  \E i \in DOMAIN files :
    LET q == requests[files[i].req]
    IN  /\ q.type = "full"
        /\ q.img = Image(1200, 800)
        /\ q.overlay.x = Rat(100, 3) /\ q.overlay.y = Rat(200, 3)
        /\ ImageOp(files[i]).sw = Num(1200)
        /\ TextOp(files[i]).x = Num(400)
        /\ TextOp(files[i]).y = Rat(1600, 3)

RatLT(p, q) == ~RatLE(q, p)

\* the crop rectangle of a drawImage operation lies inside a w x h source
CropInside(d, w, h) ==
  /\ RatLE(Num(0), d.sx)
  /\ RatLE(Num(0), d.sy)
  /\ RatLE(RatAdd(d.sx, d.sw), Num(w))
  /\ RatLE(RatAdd(d.sy, d.sh), Num(h))

\* a source too short for the cover crop: sourceH < 383 * sourceW / 900
TooShortForCover(img) == img.h * 900 < 383 * img.w

\* C14: for every kind and any positive source dimensions the crop
\* rectangle of an export lies inside the source (sx >= 0, sy >= 0,
\* sx + sw <= sourceW, sy + sh <= sourceH), except for the cover kind when
\* sourceH < 383 * sourceW / 900: then sy is negative and sy + sh exceeds
\* sourceH; and the export proceeds all the same: every request whose image
\* has decoded has its one file, and no error is set.
C14_CropInsideUnlessShortCover ==
  /\ \A i \in DOMAIN files :
       LET q == requests[files[i].req]
           d == ImageOp(files[i])
       IN  IF q.type = "cover" /\ TooShortForCover(q.img)
           THEN /\ RatLT(d.sy, Num(0))
                /\ RatLT(Num(q.img.h), RatAdd(d.sy, d.sh))
           ELSE CropInside(d, q.img.w, q.img.h)
  /\ \A r \in DOMAIN requests :
       r \notin exports
         => Cardinality({i \in DOMAIN files : files[i].req = r}) = 1
  /\ error = Null

\* C14 witness: the cover export of a 900 x 300 source has been offered,
\* its crop starting at sy = -83/2 and ending at 683/2, below the source's
\* 300 rows; and so has an export of another kind, its crop inside.
C14_ShortSourceCover ==
  /\ \E i \in DOMAIN files :
       LET q == requests[files[i].req]
           d == ImageOp(files[i])
       IN  /\ q.type = "cover"
           /\ q.img = Image(900, 300)
           /\ d.sy = Rat(-83, 2)
           /\ RatAdd(d.sy, d.sh) = Rat(683, 2)
           /\ TextDrawn(files[i])
  /\ \E i \in DOMAIN files :
       LET q == requests[files[i].req]
       IN  /\ q.type = "thumb"
           /\ CropInside(ImageOp(files[i]), q.img.w, q.img.h)
====
